---- MODULE Spec2Model ----
(***************************************************************************)
(* Device references of libusb-rs (src/device.rs): the counted handle to   *)
(* a foreign libusb_device, its queries, open() and parent().              *)
(*                                                                         *)
(* The foreign stack (libusb) is the environment: every foreign call is    *)
(* modelled by the set of values it can report to the caller.              *)
(***************************************************************************)
EXTENDS Integers, Sequences, FiniteSets, TLC

(* ---------------------------- bounds ----------------------------------- *)

\* number of Device values the client can hold at once
MaxRefs == 2
\* number of DeviceHandle values the client can hold at once
MaxHandles == 1
\* number of Device values ever constructed
MaxConstructed == 3
\* depth of the deepest stubbed device (one tier more than the array holds)
MaxTier == 8

(* ------------------------ the stubbed foreign stack -------------------- *)

\* foreign device identities (values of *mut libusb_device); NULL is the null pointer
Devices == {"root", "leaf", "deep"}
NULL == "null"
\* sessions a Device can be tagged with (PhantomData<&'a Context>)
Contexts == {"ctxA", "ctxB"}

\* topology held by the foreign stack: "leaf" hangs off the root hub; the
\* hubs above "deep" are not enumerated, so the stack reports no parent for it
Topology(d) == IF d = "leaf" THEN "root" ELSE NULL

\* port path from the root hub to the device, as the foreign stack holds it
PortPath(d) ==
    CASE d = "root" -> << >>
      [] d = "leaf" -> <<2>>
      [] OTHER -> [i \in 1..MaxTier |-> (i % 3) + 1]

\* bNumConfigurations of each device
NumConfigurations(d) == IF d = "root" THEN 1 ELSE 2
\* configuration indices a caller passes (u8, bounded)
ConfigIndices == 0..2

\* length of the array port_numbers() hands to the foreign call
ArrayLen == 7
\* usize::MAX, held at the largest integer TLC represents; only its
\* order against the array length matters
UsizeMax == 2147483647

\* libusb status codes
LIBUSB_SUCCESS == 0
LIBUSB_ERROR_IO == -1
LIBUSB_ERROR_ACCESS == -3
LIBUSB_ERROR_NO_DEVICE == -4
LIBUSB_ERROR_NOT_FOUND == -5
LIBUSB_ERROR_OVERFLOW == -8
(* ------------------------------- state --------------------------------- *)

VARIABLES
    refs,       \* live Device values: how many hold each (device, context)
    handles,    \* live DeviceHandle values: how many carry each context
    refcnt,     \* foreign reference count of each identity; 0 = object freed
    incs,       \* libusb_ref_device calls made by this layer, per identity
    decs,       \* libusb_unref_device calls made by this layer, per identity
    buffers,    \* foreign configuration-descriptor buffers allocated and not freed
    last        \* the last call of a Device method and what it returned

vars == <<refs, handles, refcnt, incs, decs, buffers, last>>

\* struct Device { context, device }
Device == [device : Devices, context : Contexts]

RECURSIVE Sum(_, _)
Sum(f, S) == IF S = {} THEN 0 ELSE LET x == CHOOSE y \in S : TRUE IN f[x] + Sum(f, S \ {x})

\* number of live Device values that refer to identity d
Live(d) == Sum(refs, {v \in Device : v.device = d})
\* number of live Device values, and of Device values constructed so far
LiveRefs == Sum(refs, Device)
Constructed == Sum(decs, Devices) + LiveRefs
\* number of live DeviceHandle values
LiveHandles == Sum(handles, Contexts)

\* the foreign object behind d has been destroyed: a pointer to it dangles
Freed(d) == refcnt[d] = 0

\* what a call produced besides its status: nothing, a decoded descriptor,
\* a handle or a Device
NoRecord == [type |-> "none", device |-> NULL, context |-> NULL, index |-> 0]

NoCall == [op |-> "none", device |-> NULL, context |-> NULL, arg |-> 0,
           status |-> 0, kind |-> "none", error |-> "none", decoded |-> FALSE,
           record |-> NoRecord, nums |-> << >>, value |-> 0, speed |-> "none"]

Init ==
    /\ refs = [v \in Device |-> 0]
    /\ handles = [c \in Contexts |-> 0]
    /\ refcnt = [d \in Devices |-> 1]
    /\ incs = [d \in Devices |-> 0]
    /\ decs = [d \in Devices |-> 0]
    /\ buffers = 0
    /\ last = NoCall

(* ------------------------- reference counting -------------------------- *)

\* libusb_ref_device(device)
libusb_ref_device(d) ==
    /\ refcnt' = [refcnt EXCEPT ![d] = @ + 1]
    /\ incs' = [incs EXCEPT ![d] = @ + 1]

\* libusb_unref_device(device): the object is destroyed when the count
\* reaches zero; a further unref finds it already destroyed
libusb_unref_device(d) ==
    /\ refcnt' = [refcnt EXCEPT ![d] = IF @ > 0 THEN @ - 1 ELSE 0]
    /\ decs' = [decs EXCEPT ![d] = @ + 1]

\* device::from_libusb(context, device), called by the enumeration
from_libusb(context, device) ==
    /\ ~Freed(device)
    /\ LiveRefs < MaxRefs
    /\ Constructed < MaxConstructed
    /\ libusb_ref_device(device)
    /\ refs' = [refs EXCEPT ![[device |-> device, context |-> context]] = @ + 1]
    /\ UNCHANGED <<decs, handles, buffers, last>>

\* Drop for Device
drop(self) ==
    /\ refs[self] > 0
    /\ libusb_unref_device(self.device)
    /\ refs' = [refs EXCEPT ![self] = @ - 1]
    /\ UNCHANGED <<incs, handles, buffers, last>>

(* --------------------- what the foreign calls report -------------------- *)

\* A call on a pointer whose object was destroyed reads freed memory: it
\* may see the data of any device, return any value the function can return
\* at all, or fault.
Seen(d) == IF Freed(d) THEN Devices ELSE {d}
Faults(d) == IF Freed(d) THEN BOOLEAN ELSE {FALSE}

\* libusb_get_device_descriptor: always succeeds since libusb 1.0.16
libusb_get_device_descriptor(d) == {LIBUSB_SUCCESS, LIBUSB_ERROR_IO}

\* libusb_get_config_descriptor: NOT_FOUND when the configuration does not exist
libusb_get_config_descriptor(d, i) ==
    IF Freed(d) THEN {LIBUSB_SUCCESS, LIBUSB_ERROR_NOT_FOUND, LIBUSB_ERROR_IO}
    ELSE IF i >= NumConfigurations(d) THEN {LIBUSB_ERROR_NOT_FOUND}
    ELSE {LIBUSB_SUCCESS, LIBUSB_ERROR_IO}

\* libusb_get_active_config_descriptor: NOT_FOUND when the device is unconfigured
libusb_get_active_config_descriptor(d) ==
    {LIBUSB_SUCCESS, LIBUSB_ERROR_NOT_FOUND, LIBUSB_ERROR_IO}

\* libusb_open: NO_DEVICE when the device has been disconnected
libusb_open(d) ==
    {LIBUSB_SUCCESS, LIBUSB_ERROR_ACCESS, LIBUSB_ERROR_NO_DEVICE, LIBUSB_ERROR_IO}

\* libusb_get_port_numbers(dev, array, len): the number of entries written,
\* or for a path that does not fit either the entries that fit or
\* LIBUSB_ERROR_OVERFLOW
libusb_get_port_numbers(d, len) ==
    IF Freed(d) THEN (0..len) \cup {LIBUSB_ERROR_OVERFLOW}
    ELSE IF Len(PortPath(d)) <= len THEN {Len(PortPath(d))}
    ELSE {len, LIBUSB_ERROR_OVERFLOW}

\* libusb_get_parent
libusb_get_parent(d) == IF Freed(d) THEN Devices \cup {NULL} ELSE {Topology(d)}

\* stubbed topology bytes and speed codes
BusNumber(d) == IF d = "deep" THEN 2 ELSE 1
Address(d) == Len(PortPath(d)) + 1
PortNumber(d) == IF PortPath(d) = << >> THEN 0 ELSE PortPath(d)[Len(PortPath(d))]
SpeedCode(d) == CASE d = "root" -> 3 [] d = "leaf" -> 1 [] OTHER -> 9

(* ------------------------ collaborators of Device ---------------------- *)

\* error::from_libusb
error_from_libusb(err) ==
    CASE err = LIBUSB_ERROR_ACCESS -> "AccessDenied"
      [] err = LIBUSB_ERROR_NO_DEVICE -> "NoDevice"
      [] err = LIBUSB_ERROR_NOT_FOUND -> "NotFound"
      [] OTHER -> "HostQueryError"

\* fields::speed_from_libusb
speed_from_libusb(n) ==
    CASE n = 1 -> "Low" [] n = 2 -> "Full" [] n = 3 -> "High" [] n = 4 -> "Super"
      [] OTHER -> "Unknown"

\* device_descriptor::from_libusb: the decoded, owned record
device_descriptor_from_libusb(e) ==
    [type |-> "DeviceDescriptor", device |-> e, context |-> NULL, index |-> 0]

\* config_descriptor::from_libusb: decodes the foreign buffer into an owned
\* record and releases the buffer; outstanding counts the buffers not released
config_descriptor_from_libusb(e, i, outstanding) ==
    [record |-> [type |-> "ConfigDescriptor", device |-> e, context |-> NULL,
                 index |-> i],
     outstanding |-> outstanding - 1]

\* device_handle::from_libusb(context, handle): the handle opened on device e
device_handle_from_libusb(context, e) ==
    [type |-> "DeviceHandle", device |-> e, context |-> context, index |-> 0]

(* --------------------------- Device methods ---------------------------- *)

\* the call of method op on the Device self, before it has returned
Call(op, self) == [NoCall EXCEPT !.op = op, !.device = self.device]

\* the foreign call faulted on freed memory: the method never returns
Fault(call) == [call EXCEPT !.kind = "fault"]

\* try_unsafe!: a status other than 0 returns Err(error::from_libusb(status))
Err(call, status) ==
    [call EXCEPT !.status = status, !.kind = "err", !.error = error_from_libusb(status)]

\* i32 as usize
AsUsize(x) == IF x < 0 THEN (UsizeMax + x) + 1 ELSE x

\* Device::device_descriptor
device_descriptor(self) ==
    /\ refs[self] > 0
    /\ LET d == self.device
           call == Call("device_descriptor", self)
       IN  \E fault \in Faults(d), status \in libusb_get_device_descriptor(d),
              e \in Seen(d) :
              last' = IF fault THEN Fault(call)
                      ELSE IF status # 0 THEN Err(call, status)
                      ELSE [call EXCEPT !.kind = "ok", !.decoded = TRUE,
                                        !.record = device_descriptor_from_libusb(e)]
    /\ UNCHANGED <<refs, handles, refcnt, incs, decs, buffers>>

\* config_descriptor without the status check: decodes whatever came back
config_descriptor_unchecked(self, config_index) ==
    /\ refs[self] > 0
    /\ LET d == self.device
           call == [Call("config_descriptor", self) EXCEPT !.arg = config_index]
       IN  \E status \in libusb_get_config_descriptor(d, config_index) :
              LET config == config_descriptor_from_libusb(d, config_index, buffers + 1)
              IN  /\ last' = [call EXCEPT !.status = status, !.kind = "ok",
                                          !.decoded = TRUE, !.record = config.record]
                  /\ buffers' = config.outstanding
    /\ UNCHANGED <<refs, handles, refcnt, incs, decs>>

\* Device::config_descriptor
config_descriptor(self, config_index) ==
    /\ refs[self] > 0
    /\ LET d == self.device
           call == [Call("config_descriptor", self) EXCEPT !.arg = config_index]
       IN  \E fault \in Faults(d),
              status \in libusb_get_config_descriptor(d, config_index),
              e \in Seen(d) :
              IF fault THEN last' = Fault(call) /\ buffers' = buffers
              ELSE IF status # 0 THEN last' = Err(call, status) /\ buffers' = buffers
              ELSE LET config == config_descriptor_from_libusb(e, config_index,
                                                               buffers + 1)
                   IN  /\ last' = [call EXCEPT !.kind = "ok", !.decoded = TRUE,
                                               !.record = config.record]
                       /\ buffers' = config.outstanding
    /\ UNCHANGED <<refs, handles, refcnt, incs, decs>>

\* active_config_descriptor that fetches the descriptor twice and decodes
\* only the second buffer
active_config_descriptor_refetching(self) ==
    /\ refs[self] > 0
    /\ LET d == self.device
           call == Call("active_config_descriptor", self)
       IN  \E status \in libusb_get_active_config_descriptor(d) :
              IF status # 0 THEN last' = Err(call, status) /\ buffers' = buffers
              ELSE LET config == config_descriptor_from_libusb(d, 0, buffers + 2)
                   IN  /\ last' = [call EXCEPT !.kind = "ok", !.decoded = TRUE,
                                               !.record = config.record]
                       /\ buffers' = config.outstanding
    /\ UNCHANGED <<refs, handles, refcnt, incs, decs>>

\* Device::active_config_descriptor
active_config_descriptor(self) ==
    /\ refs[self] > 0
    /\ LET d == self.device
           call == Call("active_config_descriptor", self)
       IN  \E fault \in Faults(d), status \in libusb_get_active_config_descriptor(d),
              e \in Seen(d) :
              IF fault THEN last' = Fault(call) /\ buffers' = buffers
              ELSE IF status # 0 THEN last' = Err(call, status) /\ buffers' = buffers
              ELSE LET config == config_descriptor_from_libusb(e, 0, buffers + 1)
                   IN  /\ last' = [call EXCEPT !.kind = "ok", !.decoded = TRUE,
                                               !.record = config.record]
                       /\ buffers' = config.outstanding
    /\ UNCHANGED <<refs, handles, refcnt, incs, decs>>

\* a method that returns the byte the foreign stack holds for the device;
\* byte maps each device to it
ByteQuery(op, self, byte) ==
    /\ refs[self] > 0
    /\ LET d == self.device
       IN  \E fault \in Faults(d), e \in Seen(d) :
              last' = IF fault THEN Fault(Call(op, self))
                      ELSE [Call(op, self) EXCEPT !.kind = "ok", !.value = byte[e]]
    /\ UNCHANGED <<refs, handles, refcnt, incs, decs, buffers>>

\* Device::bus_number
bus_number(self) == ByteQuery("bus_number", self, [e \in Devices |-> BusNumber(e)])

\* Device::port_number
port_number(self) == ByteQuery("port_number", self, [e \in Devices |-> PortNumber(e)])

\* Device::address
address(self) == ByteQuery("address", self, [e \in Devices |-> Address(e)])

\* speed that takes a reference on the device it reads
speed_retaining(self) ==
    /\ refs[self] > 0
    /\ last' = [Call("speed", self) EXCEPT
                   !.kind = "ok", !.speed = speed_from_libusb(SpeedCode(self.device))]
    /\ libusb_ref_device(self.device)
    /\ UNCHANGED <<refs, handles, decs, buffers>>

\* Device::speed
speed(self) ==
    /\ refs[self] > 0
    /\ LET d == self.device
       IN  \E fault \in Faults(d), e \in Seen(d) :
              last' = IF fault THEN Fault(Call("speed", self))
                      ELSE [Call("speed", self) EXCEPT
                               !.kind = "ok", !.speed = speed_from_libusb(SpeedCode(e))]
    /\ UNCHANGED <<refs, handles, refcnt, incs, decs, buffers>>

\* the array after the foreign call wrote n entries of e's path into it
Written(e, n) ==
    [i \in 1..ArrayLen |->
        IF i <= n /\ i <= Len(PortPath(e)) THEN PortPath(e)[i] ELSE 0]

\* Device::port_numbers
port_numbers(self) ==
    /\ refs[self] > 0
    /\ LET d == self.device
           call == Call("port_numbers", self)
       IN  \E fault \in Faults(d), ret \in libusb_get_port_numbers(d, ArrayLen),
              e \in Seen(d) :
              LET array == Written(e, ret)
                  actual_len == AsUsize(ret)
              IN  last' = IF fault THEN Fault(call)
                          ELSE IF actual_len > ArrayLen
                               THEN [call EXCEPT !.status = ret, !.kind = "panic"]
                          ELSE [call EXCEPT !.status = ret, !.kind = "ok",
                                            !.nums = SubSeq(array, 1, actual_len)]
    /\ UNCHANGED <<refs, handles, refcnt, incs, decs, buffers>>

\* open without the status check: wraps whatever handle came back
open_unchecked(self) ==
    /\ refs[self] > 0
    /\ LiveHandles < MaxHandles
    /\ \E status \in libusb_open(self.device) :
          LET call == [Call("open", self) EXCEPT !.context = self.context]
              handle == device_handle_from_libusb(self.context, self.device)
          IN  /\ last' = [call EXCEPT !.status = status, !.kind = "ok",
                                      !.decoded = TRUE, !.record = handle]
              /\ handles' = [handles EXCEPT ![handle.context] = @ + 1]
    /\ UNCHANGED <<refs, refcnt, incs, decs, buffers>>

\* Device::open
open(self) ==
    /\ refs[self] > 0
    /\ LET d == self.device
           call == [Call("open", self) EXCEPT !.context = self.context]
       IN  \E fault \in Faults(d), status \in libusb_open(d), e \in Seen(d) :
              IF fault THEN last' = Fault(call) /\ handles' = handles
              ELSE IF status # 0 THEN last' = Err(call, status) /\ handles' = handles
              ELSE LET handle == device_handle_from_libusb(self.context, e)
                   IN  /\ LiveHandles < MaxHandles
                       /\ last' = [call EXCEPT !.kind = "ok", !.decoded = TRUE,
                                               !.record = handle]
                       /\ handles' = [handles EXCEPT ![handle.context] = @ + 1]
    /\ UNCHANGED <<refs, refcnt, incs, decs, buffers>>

\* Device::parent
parent(self) ==
    /\ refs[self] > 0
    /\ LET d == self.device
           call == [Call("parent", self) EXCEPT !.context = self.context]
       IN  \E fault \in Faults(d), p \in libusb_get_parent(d) :
              IF fault THEN last' = Fault(call) /\ refs' = refs
              ELSE IF p = NULL
                   THEN last' = [call EXCEPT !.kind = "nothing"] /\ refs' = refs
              ELSE LET some == [device |-> p, context |-> self.context]
                   IN  /\ LiveRefs < MaxRefs
                       /\ Constructed < MaxConstructed
                       /\ last' = [call EXCEPT !.kind = "ok",
                                      !.record = [type |-> "Device", device |-> p,
                                                  context |-> self.context, index |-> 0]]
                       /\ refs' = [refs EXCEPT ![some] = @ + 1]
    /\ UNCHANGED <<handles, refcnt, incs, decs, buffers>>

(* ----------------------------- environment ----------------------------- *)

\* Drop for DeviceHandle: closes the foreign handle
close(c) ==
    /\ handles[c] > 0
    /\ handles' = [handles EXCEPT ![c] = @ - 1]
    /\ UNCHANGED <<refs, refcnt, incs, decs, buffers, last>>

Next ==
    \/ \E c \in Contexts, d \in Devices : from_libusb(c, d)
    \/ \E self \in Device : drop(self)
    \/ \E self \in Device : device_descriptor(self)
    \/ \E self \in Device, i \in ConfigIndices : config_descriptor(self, i)
    \/ \E self \in Device : active_config_descriptor(self)
    \/ \E self \in Device : bus_number(self)
    \/ \E self \in Device : port_number(self)
    \/ \E self \in Device : port_numbers(self)
    \/ \E self \in Device : address(self)
    \/ \E self \in Device : speed(self)
    \/ \E self \in Device : open(self)
    \/ \E self \in Device : parent(self)
    \/ \E c \in Contexts : close(c)

Spec == Init /\ [][Next]_vars

(* ------------------------------- claims -------------------------------- *)

QueryOps == {"device_descriptor", "config_descriptor", "active_config_descriptor",
             "bus_number", "port_number", "port_numbers", "address", "speed"}
ConfigOps == {"config_descriptor", "active_config_descriptor"}
CheckedOps == {"device_descriptor", "config_descriptor", "active_config_descriptor",
               "open"}

\* C1: for every identity, the increments minus the decrements this layer
\* has made equal the number of live Device values that refer to it.
C1_NetCountEqualsLive == \A d \in Devices : incs[d] - decs[d] = Live(d)

\* C2: parent() on a device with an upstream hub returns a Device for that
\* hub and increments the hub's count by exactly one; on the root it returns
\* none and changes no count.
C2_ParentTakesReference ==
    [][\A self \in Device :
          parent(self) =>
              LET hub == Topology(self.device)
              IN  IF hub # NULL
                  THEN /\ last'.kind = "ok"
                       /\ last'.record.device = hub
                       /\ refs'[[device |-> hub, context |-> self.context]]
                            = refs[[device |-> hub, context |-> self.context]] + 1
                       /\ incs' = [incs EXCEPT ![hub] = @ + 1]
                       /\ decs' = decs
                  ELSE /\ last'.kind = "nothing"
                       /\ UNCHANGED <<refs, refcnt, incs, decs>>]_vars

\* C3: port_numbers() returns the reported path in order, 0 to 7 entries
\* long; for a path deeper than 7 tiers it returns exactly 7 entries and
\* does not fail.
C3_PortNumbersCapped ==
    last.op = "port_numbers" =>
        /\ last.kind = "ok"
        /\ Len(last.nums) \in 0..ArrayLen
        /\ Len(last.nums) = IF Len(PortPath(last.device)) > ArrayLen
                            THEN ArrayLen ELSE Len(PortPath(last.device))
        /\ \A i \in 1..Len(last.nums) : last.nums[i] = PortPath(last.device)[i]

\* C4: every call of a Device method returns its typed result, whatever the
\* foreign call reports; none panics or terminates the process.
C4_EveryCallReturns == last.kind \in {"none", "ok", "err", "nothing"}

\* C5: a step in which open() returns: on a failure status it returns
\* AccessDenied, NoDevice or HostQueryError according to the status and
\* creates no handle; on success it creates one handle, tagged with the
\* context of the Device it was called on.
C5_OpenMapsStatusAndKeepsContext ==
    [][(/\ last'.op = "open"
        /\ last'.kind # "fault"
        /\ \/ last' # last
           \/ handles' # handles /\ \A c \in Contexts : handles'[c] >= handles[c]) =>
          IF last'.status # LIBUSB_SUCCESS
          THEN /\ last'.kind = "err"
               /\ last'.error = CASE last'.status = LIBUSB_ERROR_ACCESS -> "AccessDenied"
                                  [] last'.status = LIBUSB_ERROR_NO_DEVICE -> "NoDevice"
                                  [] OTHER -> "HostQueryError"
               /\ last'.record = NoRecord
               /\ handles' = handles
          ELSE /\ last'.kind = "ok"
               /\ last'.record.type = "DeviceHandle"
               /\ last'.record.context = last'.context
               /\ refs[[device |-> last'.device, context |-> last'.context]] > 0
               /\ handles' = [handles EXCEPT ![last'.context] = @ + 1]]_vars

\* a handle was opened from a Device of ctxB while one of ctxA is live too
C5_Witness ==
    /\ last.op = "open" /\ last.kind = "ok" /\ last.context = "ctxB"
    /\ handles["ctxB"] = 1
    /\ \E d \in Devices : refs[[device |-> d, context |-> "ctxA"]] > 0

\* C6: config_descriptor(index) with index >= the device's configuration
\* count yields NotFound and never a record.
C6_IndexBeyondCountIsNotFound ==
    (last.op = "config_descriptor" /\ last.arg >= NumConfigurations(last.device)) =>
        /\ last.kind = "err"
        /\ last.error = "NotFound"
        /\ last.record = NoRecord

C8_QueriesChangeNoCount ==
    [][(last' # last /\ last'.op \in QueryOps) =>
          UNCHANGED <<refs, handles, refcnt, incs, decs>>]_vars

\* a query failed on a device that a live Device and an open handle refer to
C8_Witness ==
    /\ last.op \in QueryOps /\ last.kind = "err"
    /\ Live(last.device) > 0
    /\ LiveHandles > 0

\* C9: in device_descriptor, config_descriptor, active_config_descriptor and
\* open a failure status returns the mapped error and nothing is decoded or
\* constructed from the call's output.
C9_StatusCheckedBeforeDecode ==
    (last.op \in CheckedOps /\ last.status # LIBUSB_SUCCESS) =>
        /\ last.kind = "err"
        /\ last.error = error_from_libusb(last.status)
        /\ ~last.decoded
        /\ last.record = NoRecord

\* a configuration that exists could not be read
C9_Witness ==
    /\ last.op = "config_descriptor" /\ last.status = LIBUSB_ERROR_IO
    /\ last.arg < NumConfigurations(last.device)

\* C10: this layer never decrements an identity more often than it has
\* incremented it, and an identity with a live Device has a count of at
\* least 1: its object is not destroyed.
C10_NoUseAfterFree ==
    \A d \in Devices :
        /\ decs[d] <= incs[d]
        /\ Live(d) > 0 => refcnt[d] >= 1

====
